---- MODULE Spec2Model ----
(***************************************************************************)
(* State model of the tactics board of src/src/App.tsx: the frame          *)
(* sequence, the frame cursor, the tokens (markers) and drawn lines (ink)  *)
(* of every frame, the token selection, the drawing gesture and the saved  *)
(* plays.                                                                  *)
(*                                                                         *)
(* Representation.                                                         *)
(*  - Ratio coordinates (xRatio, yRatio, pointRatios) are kept in          *)
(*    thousandths: 0.044 is 44, 0.5 is 500, 0.98 is 980.                   *)
(*  - frames is a TLA+ sequence (1-based); currentFrameIndex keeps the     *)
(*    0-based value of the code, so the current frame is                   *)
(*    frames[currentFrameIndex + 1].                                       *)
(*  - A token id is the string `${prefix}-${number}` of the code, kept as  *)
(*    the triple <<kind, key, number>>: <<"rival", 0, n>> is "rival-n",    *)
(*    <<"generic", 0, n>> is "generic-n" and <<"player", p, t>> is the id  *)
(*    of roster player p followed by the Date.now() reading t.             *)
(*  - Every handler runs against the state of the latest render, and is    *)
(*    one atomic action (React flushes the updates of one event before     *)
(*    the next event is dispatched).                                       *)
(*  - lastOp is a history variable: the handler that ran last and how it   *)
(*    ended.  steps counts handler runs and bounds the exploration.        *)
(***************************************************************************)
EXTENDS Integers, Sequences, FiniteSets, TLC

VARIABLES
  frames,               \* useState<Frame[]>                       (App.tsx:163)
  currentFrameIndex,    \* useState(0)                             (App.tsx:168)
  selectedTokenId,      \* useState<string | null>(null)           (App.tsx:161)
  lineColor,            \* useState('#ff0000')                     (App.tsx:178)
  isDrawing,            \* useState(false)                         (App.tsx:179)
  isActuallyDrawingRef, \* useRef(false)                           (App.tsx:183)
  playName,             \* useState('')                            (App.tsx:187)
  savedPlays,           \* useState<SavedPlay[]>([])               (App.tsx:188)
  stored,               \* localStorage['ancb_plays'], as parsed   (App.tsx:200)
  clock,                \* the latest reading of Date.now()
  mounted,              \* FALSE once a render has thrown and React has unmounted the tree
  assets,               \* useState<Assets>({ lines: null, logo: null }) (App.tsx:158)
  loading,              \* the image loads in flight               (App.tsx:206-215, 262-265)
  lastOp,               \* history: the last handler and its outcome
  gestureLine,          \* history: frame index and line number of the line that the
                        \* latest drawing pointer-down created, while they identify it
  steps                 \* history: number of handler runs so far

vars == <<frames, currentFrameIndex, selectedTokenId, lineColor, isDrawing,
          isActuallyDrawingRef, playName, savedPlays, stored, clock, mounted,
          assets, loading, lastOp, gestureLine, steps>>

----------------------------------------------------------------------------
(* Bounds of the exploration *)

MaxSteps == 4

\* The row specification: number of roster entries and of handler runs
TeamSize == 12
MaxRowSteps == 14

----------------------------------------------------------------------------
(* Program constants *)

SIDEBAR_X == 44

PEN_COLORS == <<"#ff0000", "#000000", "#ffffff", "#ffff00", "#00ff00">>

\* stageW, stageH: the logical (landscape) size of the Stage in pixels.
stageW == 2 * 1000
stageH == 1000

\* null of selectedTokenId / getTokenAtPosition
NoToken == <<"null", 0, 0>>

\* The roster fetched at startup: player ids are distinct document ids, two
\* documents may carry the same nome (players 1 and 2 do).
dbPlayers ==
  << [id |-> 1, nome |-> 1], [id |-> 2, nome |-> 1], [id |-> 3, nome |-> 2] >>

----------------------------------------------------------------------------
(* Helpers *)

Min(a, b) == IF a <= b THEN a ELSE b
Max(a, b) == IF a >= b THEN a ELSE b

\* s.findIndex(at => at.id === id): 0-based, -1 when absent
findIndexById(s, id) ==
  IF \E i \in 1..Len(s) : s[i].id = id
  THEN (CHOOSE i \in 1..Len(s) : s[i].id = id /\ \A j \in 1..(i - 1) : s[j].id # id) - 1
  ELSE -1

\* Array.prototype.filter((_, i) => i !== k) with a 0-based k
RemoveAt(s, k) ==
  [i \in 1..(Len(s) - (IF k >= 0 /\ k < Len(s) THEN 1 ELSE 0)) |->
     IF i <= k THEN s[i] ELSE s[i + 1]]

\* Array.prototype.slice(0, -1)
SliceDropLast(s) == IF Len(s) = 0 THEN <<>> ELSE SubSeq(s, 1, Len(s) - 1)

\* String.prototype.trim on a name kept as a sequence of characters
RECURSIVE TrimLeft(_)
TrimLeft(s) == IF s # <<>> /\ Head(s) = " " THEN TrimLeft(Tail(s)) ELSE s
RECURSIVE TrimRight(_)
TrimRight(s) ==
  IF s # <<>> /\ s[Len(s)] = " " THEN TrimRight(SubSeq(s, 1, Len(s) - 1)) ELSE s
\* Variant: the name is taken as typed.
trim_none(s) == s

trim(s) == TrimRight(TrimLeft(s))

\* Variant: the id keeps the Date.now() reading and drops the roster id.
AncbId_timeOnly(player, t) == <<"player", 0, t>>

AncbId(player, t) == <<"player", player.id, t>>

buildDefaultTokens ==
  [i \in 1..10 |->
     IF i <= 5
     THEN [id |-> <<"rival", 0, i>>, type |-> "rival", numero |-> i, nome |-> 0,
           xRatio |-> SIDEBAR_X, yRatio |-> 70 + (i - 1) * 90]
     ELSE [id |-> <<"generic", 0, i - 5>>, type |-> "generic", numero |-> i - 5,
           nome |-> 0,
           xRatio |-> SIDEBAR_X, yRatio |-> 520 + (i - 6) * 90]]

\* The derived values of a render (App.tsx:170-173)
currentFrame == frames[currentFrameIndex + 1]
tokens == currentFrame.tokens
lines == currentFrame.lines
courtType == currentFrame.courtType

\* { ...frame, ...patch }
Merge(frame, patch) ==
  [f \in DOMAIN frame |-> IF f \in DOMAIN patch THEN patch[f] ELSE frame[f]]

\* Variant: the patch is merged into the first frame, wherever the cursor is.
updateCurrentFrame_first(patch) ==
  [frames EXCEPT ![1] = Merge(@, patch)]

\* updateCurrentFrame: the frames array after merging patch into the frame at
\* the cursor.
updateCurrentFrame(patch) ==
  [frames EXCEPT ![currentFrameIndex + 1] = Merge(@, patch)]

\* No line is known to belong to a gesture in progress: no drawing pointer-down
\* yet, the gesture has ended, or frames were removed or replaced so that
\* positions no longer identify the line
NoGesture == <<-1, 0>>

\* The load the asset effect starts at mount, for the half court
mountLoad == [at |-> 0, by |-> "effect", courtType |-> "half"]

\* One handler run that ends with outcome op.  The image loads are followed by
\* the actions of the asset specification only (courtChange, frameChange,
\* assetsLoaded); the images feed back into no other state.
Ran(op) ==
  /\ steps' = steps + 1
  /\ lastOp' = op
  /\ gestureLine' =
       IF op = "handlePointerDown:draw"
       THEN <<currentFrameIndex, Len(lines) + 1>>
       ELSE IF op \in {"handlePointerUp", "deleteFrame", "loadPlay", "reload"}
       THEN NoGesture
       ELSE gestureLine
  /\ UNCHANGED <<assets, loading>>

Enabled == mounted /\ steps < MaxSteps

----------------------------------------------------------------------------
(* Initial state: one half-court frame with the default tokens *)

Init ==
  /\ frames = << [courtType |-> "half", tokens |-> buildDefaultTokens, lines |-> <<>>] >>
  /\ currentFrameIndex = 0
  /\ selectedTokenId = NoToken
  /\ lineColor = "#ff0000"
  /\ isDrawing = FALSE
  /\ isActuallyDrawingRef = FALSE
  /\ playName = <<>>
  /\ savedPlays = <<>>
  /\ stored = <<>>
  /\ clock = 0
  /\ mounted = TRUE
  /\ assets = [lines |-> "none", logo |-> "none"]
  /\ loading = {mountLoad}
  /\ lastOp = "init"
  /\ gestureLine = NoGesture
  /\ steps = 0

----------------------------------------------------------------------------
(* Frame operations *)

\* Variant: the upper bound is inclusive (index <= frames.length).
validIndex_inclusive(index) == index >= 0 /\ index <= Len(frames)

\* index >= 0 && index < frames.length
validIndex(index) == index >= 0 /\ index < Len(frames)

changeFrame(index) ==
  /\ Enabled
  /\ IF validIndex(index)
     THEN /\ currentFrameIndex' = index
          /\ selectedTokenId' = NoToken
          /\ Ran("changeFrame")
     ELSE /\ UNCHANGED <<currentFrameIndex, selectedTokenId>>
          /\ Ran("changeFrame:ignored")
  /\ UNCHANGED <<frames, lineColor, isDrawing, isActuallyDrawingRef, playName,
                 savedPlays, stored, clock, mounted>>

\* Variant: the new frame starts from the default tokens, not from a copy of
\* the current ones.
newFrame_defaultTokens ==
  [courtType |-> courtType, tokens |-> buildDefaultTokens, lines |-> <<>>]

\* The frame addNewFrame builds from the current render.
newFrame ==
  [courtType |-> courtType, tokens |-> tokens, lines |-> <<>>]

\* Variant: the cursor moves to the frame after the current one.
addNewFrameIndex_afterCursor(next) == currentFrameIndex + 1

\* The cursor addNewFrame sets for the array next.
addNewFrameIndex(next) == Len(next) - 1

addNewFrame ==
  /\ Enabled
  /\ LET next == Append(frames, newFrame)
     IN /\ frames' = next
        /\ currentFrameIndex' = addNewFrameIndex(next)
  /\ selectedTokenId' = NoToken
  /\ Ran("addNewFrame")
  /\ UNCHANGED <<lineColor, isDrawing, isActuallyDrawingRef, playName,
                 savedPlays, stored, clock, mounted>>

\* Variant: the guard is missing.
deleteFrameRejects_noGuard == FALSE

\* Variant: the guard is off by one (frames.length < 1).
deleteFrameRejects_offByOne == Len(frames) < 1

\* if (frames.length <= 1) return;
deleteFrameRejects == Len(frames) <= 1

\* Variant: the last frame is removed, wherever the cursor is.
deleteFrameNext_dropLast == SubSeq(frames, 1, Len(frames) - 1)

\* prev.filter((_, i) => i !== currentFrameIndex)
deleteFrameNext == RemoveAt(frames, currentFrameIndex)

\* Variant: the cursor is not clamped.
deleteFrameIndex_noClamp(next) == currentFrameIndex

\* Math.min(currentFrameIndex, next.length - 1)
deleteFrameIndex(next) == Min(currentFrameIndex, Len(next) - 1)

deleteFrame(confirmed) ==
  /\ Enabled
  /\ IF deleteFrameRejects
     THEN /\ UNCHANGED <<frames, currentFrameIndex>>
          /\ Ran("deleteFrame:rejected")
     ELSE IF ~confirmed
     THEN /\ UNCHANGED <<frames, currentFrameIndex>>
          /\ Ran("deleteFrame:declined")
     ELSE LET next == deleteFrameNext
          IN /\ frames' = next
             /\ currentFrameIndex' = deleteFrameIndex(next)
             /\ Ran("deleteFrame")
  /\ UNCHANGED <<selectedTokenId, lineColor, isDrawing, isActuallyDrawingRef,
                 playName, savedPlays, stored, clock, mounted>>

setCourtType(ct) ==
  /\ Enabled
  /\ frames' = updateCurrentFrame([courtType |-> ct])
  /\ Ran("setCourtType")
  /\ UNCHANGED <<currentFrameIndex, selectedTokenId, lineColor, isDrawing,
                 isActuallyDrawingRef, playName, savedPlays, stored, clock, mounted>>

----------------------------------------------------------------------------
(* Tokens *)

isAncb(t) == t.type = "ancb"

\* tokens.filter(t => t.type === 'ancb')
ancbTokensOf(ts) == SelectSeq(ts, isAncb)

\* Variant: the roster entry is looked up by id, not by nome.
alreadyOnCourt_byId(ts, player) ==
  \E i \in 1..Len(ts) : ts[i].type = "ancb" /\ ts[i].id[2] = player.id

\* ancbTokens.some(t => t.nome === player.nome)
alreadyOnCourt(ts, player) ==
  \E i \in 1..Len(ancbTokensOf(ts)) : ancbTokensOf(ts)[i].nome = player.nome

\* Variant: the row is as wide as total spacings, not total - 1.
rowX_widthOfTotal(total, idx) == 500 - (total * 100) \div 2 + idx * 100

\* xRatio of place idx (0-based) in a top row of total tokens:
\* 0.5 - rowW / 2 + idx * spacingR, rowW = (total - 1) * spacingR, spacingR = 0.10
rowX(total, idx) == 500 - ((total - 1) * 100) \div 2 + idx * 100

\* The token list addPlayerToCourt writes for a player not yet on the court,
\* t being the Date.now() reading.
tokensWithPlayer(ts, player, t) ==
  LET ancbTokens == ancbTokensOf(ts)
      count == Len(ancbTokens)
      total == count + 1
      updatedTokens ==
        [i \in 1..Len(ts) |->
           IF ts[i].type # "ancb" THEN ts[i]
           ELSE LET idx == findIndexById(ancbTokens, ts[i].id)
                IN [ts[i] EXCEPT !.xRatio = rowX(total, idx), !.yRatio = 70]]
      newToken == [id |-> AncbId(player, t), type |-> "ancb", numero |-> 0,
                   nome |-> player.nome,
                   xRatio |-> rowX(total, count), yRatio |-> 70]
  IN Append(updatedTokens, newToken)

addPlayerToCourt(player, t) ==
  /\ Enabled
  /\ IF alreadyOnCourt(tokens, player)
     THEN /\ UNCHANGED <<frames, clock>>
          /\ Ran("addPlayerToCourt:ignored")
     ELSE /\ frames' = updateCurrentFrame([tokens |-> tokensWithPlayer(tokens, player, t)])
          /\ clock' = t
          /\ Ran("addPlayerToCourt")
  /\ UNCHANGED <<currentFrameIndex, selectedTokenId, lineColor, isDrawing,
                 isActuallyDrawingRef, playName, savedPlays, stored, mounted>>

\* Variant: the ratio is clamped to the whole canvas, 0 to 1.
clamp_unit(v) == Max(0, Min(1000, v))

\* Math.max(0.02, Math.min(0.98, v))
clamp(v) == Max(20, Min(980, v))

\* tokens.map(t => t.id === id ? { ...t, xRatio: clampedX, yRatio: clampedY } : t)
draggedTokens(ts, id, xRatio, yRatio) ==
  [i \in 1..Len(ts) |->
     IF ts[i].id = id
     THEN [ts[i] EXCEPT !.xRatio = clamp(xRatio), !.yRatio = clamp(yRatio)]
     ELSE ts[i]]

handleDragEnd(id, xRatio, yRatio) ==
  /\ Enabled
  /\ frames' = updateCurrentFrame([tokens |-> draggedTokens(tokens, id, xRatio, yRatio)])
  /\ Ran("handleDragEnd")
  /\ UNCHANGED <<currentFrameIndex, selectedTokenId, lineColor, isDrawing,
                 isActuallyDrawingRef, playName, savedPlays, stored, clock, mounted>>

\* PlayerToken onClick / onTap: onSelect(token.id)
selectToken(id) ==
  /\ Enabled
  /\ selectedTokenId' = id
  /\ Ran("selectToken")
  /\ UNCHANGED <<frames, currentFrameIndex, lineColor, isDrawing,
                 isActuallyDrawingRef, playName, savedPlays, stored, clock, mounted>>

\* Stage onClick on the stage itself: setSelectedTokenId(null)
deselect ==
  /\ Enabled
  /\ selectedTokenId' = NoToken
  /\ Ran("deselect")
  /\ UNCHANGED <<frames, currentFrameIndex, lineColor, isDrawing,
                 isActuallyDrawingRef, playName, savedPlays, stored, clock, mounted>>

\* Variant: the selected token is filtered out whatever its id.
tokensWithoutSelected_alwaysFilter(ts, sel) == SelectSeq(ts, LAMBDA t : t.id # sel)

\* The token list removeSelectedToken writes for a selected id.
tokensWithoutSelected(ts, sel) ==
  IF sel[1] = "rival"
  THEN [i \in 1..Len(ts) |->
          IF ts[i].id = sel
          THEN [ts[i] EXCEPT !.xRatio = SIDEBAR_X, !.yRatio = 70 + (sel[3] - 1) * 90]
          ELSE ts[i]]
  ELSE IF sel[1] = "generic"
  THEN [i \in 1..Len(ts) |->
          IF ts[i].id = sel
          THEN [ts[i] EXCEPT !.xRatio = SIDEBAR_X, !.yRatio = 520 + (sel[3] - 1) * 90]
          ELSE ts[i]]
  ELSE SelectSeq(ts, LAMBDA t : t.id # sel)

removeSelectedToken ==
  /\ Enabled
  /\ IF selectedTokenId = NoToken
     THEN /\ UNCHANGED <<frames, selectedTokenId>>
          /\ Ran("removeSelectedToken:none")
     ELSE /\ frames' = updateCurrentFrame([tokens |-> tokensWithoutSelected(tokens, selectedTokenId)])
          /\ selectedTokenId' = NoToken
          /\ Ran("removeSelectedToken")
  /\ UNCHANGED <<currentFrameIndex, lineColor, isDrawing, isActuallyDrawingRef,
                 playName, savedPlays, stored, clock, mounted>>

----------------------------------------------------------------------------
(* Multi-purpose pointer tool and ink *)

\* Math.sqrt(dx * dx + dy * dy) <= hit, hit = 30, for a pointer at pixel (x, y),
\* both sides squared.  The stage sizes are multiples of 1000, so the pixel
\* position of a ratio in thousandths is a whole number.
withinHit(t, x, y) ==
  LET dx == (t.xRatio * stageW) \div 1000 - x
      dy == (t.yRatio * stageH) \div 1000 - y
  IN dx * dx + dy * dy <= 30 * 30

\* Squared pixel distance of token t to the pointer at pixel (x, y)
hitDistance2(t, x, y) ==
  LET dx == (t.xRatio * stageW) \div 1000 - x
      dy == (t.yRatio * stageH) \div 1000 - y
  IN dx * dx + dy * dy

\* Variant: the id of the nearest token within the hit radius, or null.
getTokenAtPosition_nearest(x, y) ==
  IF \E i \in 1..Len(tokens) : withinHit(tokens[i], x, y)
  THEN tokens[CHOOSE i \in 1..Len(tokens) :
                 /\ withinHit(tokens[i], x, y)
                 /\ \A j \in 1..Len(tokens) :
                      /\ hitDistance2(tokens[i], x, y) <= hitDistance2(tokens[j], x, y)
                      /\ (j < i => hitDistance2(tokens[i], x, y) < hitDistance2(tokens[j], x, y))].id
  ELSE NoToken

\* getTokenAtPosition: the id of the first token within the hit radius, or null
getTokenAtPosition(x, y) ==
  IF \E i \in 1..Len(tokens) : withinHit(tokens[i], x, y)
  THEN tokens[CHOOSE i \in 1..Len(tokens) :
                 /\ withinHit(tokens[i], x, y)
                 /\ \A j \in 1..(i - 1) : ~withinHit(tokens[j], x, y)].id
  ELSE NoToken

\* pos.x / stageW and pos.y / stageH, in thousandths
xToRatio(x) == (x * 1000) \div stageW
yToRatio(y) == (y * 1000) \div stageH

\* Variant: the line takes the first pen colour, not the selected one.
newLine_firstColor(x, y) ==
  [tool |-> "pen", color |-> "#ff0000",
   pointRatios |-> <<xToRatio(x), yToRatio(y)>>]

\* The line handlePointerDown starts at pixel (x, y)
newLine(x, y) ==
  [tool |-> "pen", color |-> lineColor,
   pointRatios |-> <<xToRatio(x), yToRatio(y)>>]

handlePointerDown(x, y) ==
  /\ Enabled
  /\ LET tokenId == getTokenAtPosition(x, y)
     IN IF tokenId = NoToken
        THEN /\ isActuallyDrawingRef' = TRUE
             /\ isDrawing' = TRUE
             /\ frames' = updateCurrentFrame([lines |-> Append(lines, newLine(x, y))])
             /\ Ran("handlePointerDown:draw")
        ELSE /\ isActuallyDrawingRef' = FALSE
             /\ UNCHANGED <<isDrawing, frames>>
             /\ Ran("handlePointerDown:token")
  /\ UNCHANGED <<currentFrameIndex, selectedTokenId, lineColor, playName,
                 savedPlays, stored, clock, mounted>>

\* Variant: the line keeps the new point only.
extendedLine_replace(last, x, y) ==
  [last EXCEPT !.pointRatios = <<xToRatio(x), yToRatio(y)>>]

\* last.pointRatios = [...last.pointRatios, pos.x / stageW, pos.y / stageH]
extendedLine(last, x, y) ==
  [last EXCEPT !.pointRatios = @ \o <<xToRatio(x), yToRatio(y)>>]

\* The setFrames updater of handlePointerMove; it throws when the frame at the
\* cursor has no line (spreading the undefined pointRatios), and the render
\* error unmounts the application.
handlePointerMove(x, y) ==
  /\ Enabled
  /\ IF ~isActuallyDrawingRef \/ ~isDrawing
     THEN /\ UNCHANGED <<frames, mounted>>
          /\ Ran("handlePointerMove:ignored")
     ELSE IF Len(lines) = 0
     THEN /\ mounted' = FALSE
          /\ UNCHANGED frames
          /\ Ran("handlePointerMove:threw")
     ELSE /\ frames' = [frames EXCEPT
                 ![currentFrameIndex + 1].lines[Len(lines)] = extendedLine(@, x, y)]
          /\ UNCHANGED mounted
          /\ Ran("handlePointerMove")
  /\ UNCHANGED <<currentFrameIndex, selectedTokenId, lineColor, isDrawing,
                 isActuallyDrawingRef, playName, savedPlays, stored, clock>>

handlePointerUp ==
  /\ Enabled
  /\ isDrawing' = FALSE
  /\ isActuallyDrawingRef' = FALSE
  /\ Ran("handlePointerUp")
  /\ UNCHANGED <<frames, currentFrameIndex, selectedTokenId, lineColor, playName,
                 savedPlays, stored, clock, mounted>>

\* The pointer leaves the Stage (or the button is released outside it): the
\* Stage binds onMouseDown, onMousemove, onMouseup, onTouchStart, onTouchMove
\* and onTouchEnd only, so no handler runs.
pointerLeave ==
  /\ Enabled
  /\ Ran("pointerLeave")
  /\ UNCHANGED <<frames, currentFrameIndex, selectedTokenId, lineColor, isDrawing,
                 isActuallyDrawingRef, playName, savedPlays, stored, clock, mounted>>

\* Variant: lines.slice(1), the oldest line is dropped.
undoneLines_dropFirst(ls) == IF Len(ls) = 0 THEN <<>> ELSE Tail(ls)

\* lines.slice(0, -1)
undoneLines(ls) == SliceDropLast(ls)

undoLastLine ==
  /\ Enabled
  /\ frames' = updateCurrentFrame([lines |-> undoneLines(lines)])
  /\ Ran("undoLastLine")
  /\ UNCHANGED <<currentFrameIndex, selectedTokenId, lineColor, isDrawing,
                 isActuallyDrawingRef, playName, savedPlays, stored, clock, mounted>>

clearLines ==
  /\ Enabled
  /\ frames' = updateCurrentFrame([lines |-> <<>>])
  /\ Ran("clearLines")
  /\ UNCHANGED <<currentFrameIndex, selectedTokenId, lineColor, isDrawing,
                 isActuallyDrawingRef, playName, savedPlays, stored, clock, mounted>>

\* Colour picker: setLineColor(c)
setLineColor(c) ==
  /\ Enabled
  /\ lineColor' = c
  /\ Ran("setLineColor")
  /\ UNCHANGED <<frames, currentFrameIndex, selectedTokenId, isDrawing,
                 isActuallyDrawingRef, playName, savedPlays, stored, clock, mounted>>

----------------------------------------------------------------------------
(* Saved plays *)

\* Save modal input: setPlayName(e.target.value)
setPlayName(name) ==
  /\ Enabled
  /\ playName' = name
  /\ Ran("setPlayName")
  /\ UNCHANGED <<frames, currentFrameIndex, selectedTokenId, lineColor, isDrawing,
                 isActuallyDrawingRef, savedPlays, stored, clock, mounted>>

\* JSON.stringify of the saved plays: a property whose value is undefined (nome
\* of a slot token, numero of a roster token; kept as 0 in a token record) is
\* left out of the text.
stringifyToken(t) ==
  [f \in { k \in DOMAIN t : ~(k \in {"nome", "numero"} /\ t[k] = 0) } |-> t[f]]

stringifyFrame(f) ==
  [courtType |-> f.courtType,
   tokens |-> [i \in 1..Len(f.tokens) |-> stringifyToken(f.tokens[i])],
   lines |-> f.lines]

stringifyPlays(plays) ==
  [i \in 1..Len(plays) |->
     [id |-> plays[i].id, name |-> plays[i].name, createdAt |-> plays[i].createdAt,
      frames |-> [j \in 1..Len(plays[i].frames) |-> stringifyFrame(plays[i].frames[j])]]]

\* JSON.parse of that text: a property that is absent reads as undefined.
parseToken(r) ==
  [id |-> r.id, type |-> r.type, xRatio |-> r.xRatio, yRatio |-> r.yRatio,
   nome |-> IF "nome" \in DOMAIN r THEN r.nome ELSE 0,
   numero |-> IF "numero" \in DOMAIN r THEN r.numero ELSE 0]

parseFrame(f) ==
  [courtType |-> f.courtType,
   tokens |-> [i \in 1..Len(f.tokens) |-> parseToken(f.tokens[i])],
   lines |-> f.lines]

parsePlays(text) ==
  [i \in 1..Len(text) |->
     [id |-> text[i].id, name |-> text[i].name, createdAt |-> text[i].createdAt,
      frames |-> [j \in 1..Len(text[i].frames) |-> parseFrame(text[i].frames[j])]]]

\* The text of one entry is complete when it was written whole; an entry cut
\* off inside its object (here: before its frames) makes the text of the
\* whole list invalid JSON.
isCompleteEntry(e) == DOMAIN e = {"id", "name", "createdAt", "frames"}

\* if (stored) try { setSavedPlays(JSON.parse(stored)) } catch (_) {}
\* The saved plays after the startup read of text: JSON.parse throws on the
\* whole text when any part of it is invalid, and savedPlays stays [].
startupPlays(text) ==
  IF \A i \in 1..Len(text) : isCompleteEntry(text[i])
  THEN parsePlays(text)
  ELSE <<>>

savePlay(t) ==
  /\ Enabled
  /\ IF trim(playName) = <<>>
     THEN /\ UNCHANGED <<savedPlays, stored, playName, clock>>
          /\ Ran("savePlay:rejected")
     ELSE LET newPlay == [id |-> t, name |-> playName, frames |-> frames,
                          createdAt |-> t]
              updated == <<newPlay>> \o savedPlays
          IN /\ savedPlays' = updated
             /\ stored' = stringifyPlays(updated)
             /\ playName' = <<>>
             /\ clock' = t
             /\ Ran("savePlay")
  /\ UNCHANGED <<frames, currentFrameIndex, selectedTokenId, lineColor, isDrawing,
                 isActuallyDrawingRef, mounted>>

\* Variant: the cursor is left where it was.
loadPlay_keepCursor(play) ==
  /\ Enabled
  /\ frames' = play.frames
  /\ Ran("loadPlay")
  /\ UNCHANGED <<currentFrameIndex, selectedTokenId, lineColor, isDrawing,
                 isActuallyDrawingRef, playName, savedPlays, stored, clock, mounted>>

loadPlay(play) ==
  /\ Enabled
  /\ frames' = play.frames
  /\ currentFrameIndex' = 0
  /\ Ran("loadPlay")
  /\ UNCHANGED <<selectedTokenId, lineColor, isDrawing, isActuallyDrawingRef,
                 playName, savedPlays, stored, clock, mounted>>

\* Variant: the play is deleted whatever confirm() answers.
deleteSavedPlay_noConfirm(id, confirmed) ==
  /\ Enabled
  /\ LET updated == SelectSeq(savedPlays, LAMBDA p : p.id # id)
     IN /\ savedPlays' = updated
        /\ stored' = stringifyPlays(updated)
        /\ Ran(IF confirmed THEN "deleteSavedPlay" ELSE "deleteSavedPlay:declined")
  /\ UNCHANGED <<frames, currentFrameIndex, selectedTokenId, lineColor, isDrawing,
                 isActuallyDrawingRef, playName, clock, mounted>>

deleteSavedPlay(id, confirmed) ==
  /\ Enabled
  /\ IF confirmed
     THEN LET updated == SelectSeq(savedPlays, LAMBDA p : p.id # id)
          IN /\ savedPlays' = updated
             /\ stored' = stringifyPlays(updated)
             /\ Ran("deleteSavedPlay")
     ELSE /\ UNCHANGED <<savedPlays, stored>>
          /\ Ran("deleteSavedPlay:declined")
  /\ UNCHANGED <<frames, currentFrameIndex, selectedTokenId, lineColor, isDrawing,
                 isActuallyDrawingRef, playName, clock, mounted>>

\* A page reload: every useState starts over and the startup effect reads the
\* saved plays back from localStorage.
reload ==
  /\ steps < MaxSteps
  /\ frames' = << [courtType |-> "half", tokens |-> buildDefaultTokens, lines |-> <<>>] >>
  /\ currentFrameIndex' = 0
  /\ selectedTokenId' = NoToken
  /\ lineColor' = "#ff0000"
  /\ isDrawing' = FALSE
  /\ isActuallyDrawingRef' = FALSE
  /\ playName' = <<>>
  /\ savedPlays' = startupPlays(stored)
  /\ mounted' = TRUE
  /\ Ran("reload")
  /\ UNCHANGED <<stored, clock>>

----------------------------------------------------------------------------
(* Inputs *)

\* Date.now() never runs backwards; two readings may be equal.
Readings == { clock, clock + 1 }

\* Tokens a click selects: the first opponent slot, the last generic slot and
\* every roster token of the current frame.
Selectable ==
  { tokens[i].id : i \in { j \in 1..Len(tokens) :
       tokens[j].type = "ancb" \/ tokens[j].id \in {<<"rival", 0, 1>>, <<"generic", 0, 5>>} } }

\* Tokens a drag moves: the first opponent slot and every roster token of the
\* current frame.
Draggable ==
  { tokens[i].id : i \in { j \in 1..Len(tokens) :
       tokens[j].type = "ancb" \/ tokens[j].id = <<"rival", 0, 1>> } }

\* An id no token carries
MissingId == <<"player", 0, 0>>

\* Ratios a drag-end reports (thousandths), outside and inside the canvas
DragEnds == { <<-50, 1100>>, <<500, 300>> }

\* Pointer pixels: one on the first opponent slot, one on the free court
PointerPixels == { <<90, 72>>, <<1000, 500>> }

PlayNames == { <<" ">>, <<"a">> }

Next ==
  \/ \E index \in -1..Len(frames) : changeFrame(index)
  \/ addNewFrame
  \/ \E confirmed \in BOOLEAN : deleteFrame(confirmed)
  \/ \E ct \in {"half", "full"} : setCourtType(ct)
  \/ \E p \in 1..Len(dbPlayers), t \in Readings : addPlayerToCourt(dbPlayers[p], t)
  \/ \E id \in Draggable \cup {MissingId}, r \in DragEnds : handleDragEnd(id, r[1], r[2])
  \/ \E id \in Selectable : selectToken(id)
  \/ deselect
  \/ removeSelectedToken
  \/ \E pos \in PointerPixels : handlePointerDown(pos[1], pos[2])
  \/ \E pos \in PointerPixels : handlePointerMove(pos[1], pos[2])
  \/ handlePointerUp
  \/ pointerLeave
  \/ undoLastLine
  \/ clearLines
  \/ \E i \in 1..2 : setLineColor(PEN_COLORS[i])
  \/ \E name \in PlayNames : setPlayName(name)
  \/ \E t \in Readings : savePlay(t)
  \/ \E i \in 1..Len(savedPlays) : loadPlay(savedPlays[i])
  \/ \E i \in 1..Len(savedPlays), confirmed \in BOOLEAN : deleteSavedPlay(savedPlays[i].id, confirmed)
  \/ reload

Spec == Init /\ [][Next]_vars

----------------------------------------------------------------------------
(* The top row of a full team: addPlayerToCourt and handleDragEnd applied to   *)
(* one frame, the roster holding TeamSize players of distinct names that are   *)
(* added in roster order.                                                      *)

teamPlayer(p) == [id |-> p, nome |-> p]

rowAdd(player, t) ==
  /\ mounted
  /\ steps < MaxRowSteps
  /\ ~alreadyOnCourt(tokens, player)
  /\ frames' = updateCurrentFrame([tokens |-> tokensWithPlayer(tokens, player, t)])
  /\ clock' = t
  /\ Ran("addPlayerToCourt")
  /\ UNCHANGED <<currentFrameIndex, selectedTokenId, lineColor, isDrawing,
                 isActuallyDrawingRef, playName, savedPlays, stored, mounted>>

rowDrag(id, xRatio, yRatio) ==
  /\ mounted
  /\ steps < MaxRowSteps
  /\ frames' = updateCurrentFrame([tokens |-> draggedTokens(tokens, id, xRatio, yRatio)])
  /\ Ran("handleDragEnd")
  /\ UNCHANGED <<currentFrameIndex, selectedTokenId, lineColor, isDrawing,
                 isActuallyDrawingRef, playName, savedPlays, stored, clock, mounted>>

\* The next roster entry that is not on the court
NextOfTeam == { p \in 1..TeamSize : p = Len(ancbTokensOf(tokens)) + 1 }

\* Tokens the row specification drags: the first opponent slot and the first
\* roster token
RowDraggable ==
  { <<"rival", 0, 1>> } \cup
  { ancbTokensOf(tokens)[i].id : i \in { j \in 1..Len(ancbTokensOf(tokens)) : j = 1 } }

NextRow ==
  \/ \E p \in NextOfTeam : rowAdd(teamPlayer(p), clock)
  \/ \E id \in RowDraggable, r \in DragEnds : rowDrag(id, r[1], r[2])

SpecRow == Init /\ [][NextRow]_vars

----------------------------------------------------------------------------
(* The hit test among tokens that stand close together: handleDragEnd and     *)
(* handlePointerDown applied with drag-ends around one pointer pixel.         *)

\* The pointer pixel of the hit-test specification, the centre of the canvas
HitPixel == <<1000, 500>>

\* Ratios the drag-ends report: on the pointer pixel, 20 px right of it,
\* 20 px below it, and 40 px right of it (outside the hit radius)
HitDragEnds == { <<500, 500>>, <<510, 500>>, <<500, 520>>, <<520, 500>> }

\* Tokens the hit-test specification drags: the first two opponent slots
HitDraggable == { <<"rival", 0, 1>>, <<"rival", 0, 2>> }

NextHit ==
  \/ \E id \in HitDraggable, r \in HitDragEnds : handleDragEnd(id, r[1], r[2])
  \/ handlePointerDown(HitPixel[1], HitPixel[2])

SpecHit == Init /\ [][NextHit]_vars

----------------------------------------------------------------------------
(* The startup read of a store that an earlier session left behind: the page  *)
(* is loaded over a store whose text may hold an entry that was cut off.      *)

\* The frames every stored play of this specification holds
storedFrames ==
  << [courtType |-> "full", tokens |-> buildDefaultTokens, lines |-> <<>>] >>

\* A complete entry of the store, saved at time t under a one-letter name
storedEntry(t, letter) ==
  stringifyPlays(<< [id |-> t, name |-> <<letter>>, frames |-> storedFrames,
                     createdAt |-> t] >>)[1]

\* An entry whose text was cut off before its frames
cutOffEntry == [id |-> -1, name |-> <<"c">>]

\* The entries a store text is made of
StoreEntries == { storedEntry(-2, "a"), storedEntry(-3, "b"), cutOffEntry }

\* The store texts: no entry, one entry, two entries
StoreTexts ==
  { <<>> } \cup { <<e>> : e \in StoreEntries }
           \cup { <<e1, e2>> : e1 \in StoreEntries, e2 \in StoreEntries }

InitStore ==
  /\ frames = << [courtType |-> "half", tokens |-> buildDefaultTokens, lines |-> <<>>] >>
  /\ currentFrameIndex = 0
  /\ selectedTokenId = NoToken
  /\ lineColor = "#ff0000"
  /\ isDrawing = FALSE
  /\ isActuallyDrawingRef = FALSE
  /\ playName = <<>>
  /\ savedPlays = <<>>
  /\ stored \in StoreTexts
  /\ clock = 0
  /\ mounted = TRUE
  /\ assets = [lines |-> "none", logo |-> "none"]
  /\ loading = {mountLoad}
  /\ lastOp = "init"
  /\ gestureLine = NoGesture
  /\ steps = 0

NextStore ==
  \/ reload
  \/ \E i \in 1..Len(savedPlays) : loadPlay(savedPlays[i])
  \/ \E ct \in {"half", "full"} : setCourtType(ct)
  \/ \E name \in PlayNames : setPlayName(name)
  \/ \E t \in Readings : savePlay(t)

SpecStore == InitStore /\ [][NextStore]_vars

----------------------------------------------------------------------------
(* The court images: setCourtType and changeFrame with the image loads they   *)
(* start, and the completion of a load.  addNewFrame gives the new frame the  *)
(* court type of the current one, so the asset effect does not run after it.  *)

\* The asset effect, deps [courtType]: it runs after a render in which the
\* court type of the current frame has changed and starts a load of the lines
\* image of that court type (and of the logo); started is the set of loads
\* the handler itself has started.
withEffectLoad(started) ==
  IF courtType' # courtType
  THEN started \cup {[at |-> steps + 1, by |-> "effect", courtType |-> courtType']}
  ELSE started

\* setCourtType(ct) with its own image load and the effect's
courtChange(ct) ==
  /\ Enabled
  /\ frames' = updateCurrentFrame([courtType |-> ct])
  /\ UNCHANGED <<currentFrameIndex, selectedTokenId, lineColor, isDrawing,
                 isActuallyDrawingRef, playName, savedPlays, stored, clock, mounted,
                 assets>>
  /\ loading' = loading \cup
        withEffectLoad({[at |-> steps + 1, by |-> "handler", courtType |-> ct]})
  /\ steps' = steps + 1
  /\ lastOp' = "setCourtType"
  /\ UNCHANGED gestureLine

\* changeFrame(index) to a valid index, with the effect's load
frameChange(index) ==
  /\ Enabled
  /\ validIndex(index)
  /\ currentFrameIndex' = index
  /\ selectedTokenId' = NoToken
  /\ UNCHANGED <<frames, lineColor, isDrawing, isActuallyDrawingRef, playName,
                 savedPlays, stored, clock, mounted, assets>>
  /\ loading' = loading \cup withEffectLoad({})
  /\ steps' = steps + 1
  /\ lastOp' = "changeFrame"
  /\ UNCHANGED gestureLine

\* Variant: a completed load shows the image of the current court type.
assetsAfter_current(load) ==
  IF load.by = "effect"
  THEN [lines |-> courtType, logo |-> "logo"]
  ELSE [assets EXCEPT !.lines = courtType]

\* .then(() => setAssets({ lines: imgLines, logo: imgLogo })) for the effect's
\* load, imgLines.onload = () => setAssets(prev => ({ ...prev, lines: imgLines }))
\* for the handler's
assetsAfter(load) ==
  IF load.by = "effect"
  THEN [lines |-> load.courtType, logo |-> "logo"]
  ELSE [assets EXCEPT !.lines = load.courtType]

\* One load in flight completes
assetsLoaded(load) ==
  /\ Enabled
  /\ load \in loading
  /\ assets' = assetsAfter(load)
  /\ loading' = loading \ {load}
  /\ UNCHANGED <<frames, currentFrameIndex, selectedTokenId, lineColor, isDrawing,
                 isActuallyDrawingRef, playName, savedPlays, stored, clock, mounted>>
  /\ steps' = steps + 1
  /\ lastOp' = "assetsLoaded"
  /\ UNCHANGED gestureLine

NextAssets ==
  \/ \E ct \in {"half", "full"} : courtChange(ct)
  \/ addNewFrame
  \/ \E index \in 0..(Len(frames) - 1) : frameChange(index)
  \/ \E load \in loading : assetsLoaded(load)

SpecAssets == Init /\ [][NextAssets]_vars

----------------------------------------------------------------------------
(* Properties of the frame sequence and of the cursor *)

\* The frames stored at positions other than the 0-based position k stay as
\* they are across the step.
OtherFramesUnchanged(k) ==
  /\ Len(frames') = Len(frames)
  /\ \A i \in 1..Len(frames) : i # k + 1 => frames'[i] = frames[i]

\* C1: in every reachable state the frame sequence holds at least one frame.
C1_FramesNonEmpty == Len(frames) >= 1

\* C1 witness: a confirmed deletion has just left a single frame.
C1_Witness == lastOp = "deleteFrame" /\ Len(frames) = 1

\* C2: in every reachable state the cursor is an index of the frame sequence:
\* 0 <= currentFrameIndex < frames.length.
C2_CursorInRange ==
  /\ currentFrameIndex \in Int
  /\ 0 <= currentFrameIndex
  /\ currentFrameIndex < Len(frames)

\* C2 witness: a deletion has just happened with the cursor on the last frame
\* that is left.
C2_Witness ==
  /\ lastOp = "deleteFrame"
  /\ currentFrameIndex = Len(frames) - 1

\* C3: every addNewFrame step adds exactly one frame, leaves the cursor on the
\* new last frame, and the new frame has no lines.
C3_DuplicateAppends ==
  [][ lastOp' = "addNewFrame" =>
        /\ Len(frames') = Len(frames) + 1
        /\ currentFrameIndex' = Len(frames') - 1
        /\ frames'[Len(frames')].lines = <<>> ]_vars

\* C3 witness: a third frame has just been added as a copy of the first frame,
\* the cursor not having been on the last frame (whose tokens differ).
C3_Witness ==
  /\ lastOp = "addNewFrame"
  /\ Len(frames) = 3
  /\ currentFrameIndex = 2
  /\ frames[3].tokens = frames[1].tokens
  /\ frames[3].tokens # frames[2].tokens

\* C4: the frame addNewFrame appends has the court type and the tokens (ids and
\* positions) of the frame that was current, and the frames that existed stay
\* as they were; every later token change (add, drag, remove) writes the frame
\* at the cursor alone, so the original of a copy keeps its tokens.
C4_DuplicateCopies ==
  [][ /\ lastOp' = "addNewFrame" =>
           /\ frames'[Len(frames')].courtType = courtType
           /\ frames'[Len(frames')].tokens = tokens
           /\ SubSeq(frames', 1, Len(frames)) = frames
      /\ lastOp' \in {"addPlayerToCourt", "handleDragEnd", "removeSelectedToken"} =>
           OtherFramesUnchanged(currentFrameIndex) ]_vars

\* C4 witness: a token of the copy has just been dragged; the copy carries a
\* roster token and its tokens now differ from those of the original.
C4_Witness ==
  /\ lastOp = "handleDragEnd"
  /\ Len(frames) = 2
  /\ currentFrameIndex = 1
  /\ Len(ancbTokensOf(frames[1].tokens)) = 1
  /\ Len(ancbTokensOf(frames[2].tokens)) = 1
  /\ frames[2].tokens # frames[1].tokens

\* C5: deleteFrame on a sequence of exactly one frame is rejected, confirmed or
\* not: the frames (and so the frame's contents) and the cursor stay as they
\* were.
C5_DeleteLastRejected ==
  [][ \A confirmed \in BOOLEAN :
        (deleteFrame(confirmed) /\ Len(frames) = 1) =>
          /\ frames' = frames
          /\ currentFrameIndex' = currentFrameIndex
          /\ lastOp' = "deleteFrame:rejected" ]_vars

\* C5 witness: a deletion has just been rejected on a single frame that has a
\* line drawn on it.
C5_Witness ==
  /\ lastOp = "deleteFrame:rejected"
  /\ Len(frames) = 1
  /\ Len(lines) >= 1

\* C6: a confirmed deleteFrame on N >= 2 frames removes exactly the frame at the
\* cursor, keeps the others in order, and sets the cursor to
\* min(previous cursor, new length - 1).
C6_DeleteRemovesCurrent ==
  [][ lastOp' = "deleteFrame" =>
        /\ Len(frames) >= 2
        /\ Len(frames') = Len(frames) - 1
        /\ \A i \in 1..Len(frames') :
             frames'[i] = IF i <= currentFrameIndex THEN frames[i] ELSE frames[i + 1]
        /\ currentFrameIndex' =
             IF currentFrameIndex <= Len(frames') - 1 THEN currentFrameIndex
             ELSE Len(frames') - 1 ]_vars

\* C6 witness: the first of three frames has just been deleted (two are left
\* and the cursor stays 0).
C6_Witness ==
  /\ lastOp = "deleteFrame"
  /\ Len(frames) = 2
  /\ currentFrameIndex = 0

\* C7: changeFrame(index) with 0 <= index < frames.length sets the cursor to
\* index, clears the selection and changes no frame; with any other index the
\* cursor, the selection and the frames stay as they were.
C7_Navigate ==
  [][ \A index \in -1..Len(frames) :
        changeFrame(index) =>
          IF 0 <= index /\ index <= Len(frames) - 1
          THEN /\ currentFrameIndex' = index
               /\ selectedTokenId' = NoToken
               /\ frames' = frames
          ELSE /\ currentFrameIndex' = currentFrameIndex
               /\ selectedTokenId' = selectedTokenId
               /\ frames' = frames ]_vars

\* C7 witness: an out-of-range changeFrame has just been ignored on three
\* frames, with a token selected.
C7_Witness ==
  /\ lastOp = "changeFrame:ignored"
  /\ Len(frames) = 3
  /\ selectedTokenId # NoToken

----------------------------------------------------------------------------
(* Properties of the ink and of the tokens *)

\* C8: undoLastLine on a frame with N > 0 lines leaves the first N - 1 lines in
\* order, on a frame with no line it changes nothing; tokens and court type of
\* the frame, the other frames and the cursor stay as they were.
C8_UndoLast ==
  [][ lastOp' = "undoLastLine" =>
        /\ currentFrameIndex' = currentFrameIndex
        /\ OtherFramesUnchanged(currentFrameIndex)
        /\ LET after == frames'[currentFrameIndex + 1]
               n == Len(lines)
           IN /\ after.tokens = tokens
              /\ after.courtType = courtType
              /\ n = 0 => after.lines = <<>>
              /\ n > 0 => /\ Len(after.lines) = n - 1
                          /\ \A i \in 1..(n - 1) : after.lines[i] = lines[i] ]_vars

\* C8 witness: the newer of two lines has just been undone; the older one, of
\* two points, is left.
C8_Witness ==
  /\ lastOp = "undoLastLine"
  /\ Len(lines) = 1
  /\ Len(lines[1].pointRatios) = 4

\* No two roster tokens of one frame carry the same nome.
UniqueRosterNames ==
  \A f \in 1..Len(frames) :
    LET ancb == ancbTokensOf(frames[f].tokens)
    IN \A i, j \in 1..Len(ancb) : ancb[i].nome = ancb[j].nome => i = j

\* C9: in every reachable state every frame holds at most one roster token per
\* nome, and an addPlayerToCourt for a nome already on the current frame
\* changes no frame.
C9_OneMarkerPerName ==
  /\ []UniqueRosterNames
  /\ [][ lastOp' \in {"addPlayerToCourt", "addPlayerToCourt:ignored"} =>
         \A p \in 1..Len(dbPlayers), t \in Readings :
           (alreadyOnCourt(tokens, dbPlayers[p]) /\ addPlayerToCourt(dbPlayers[p], t)) =>
             frames' = frames ]_vars

\* C9 witness: an add has just been ignored on a frame that holds two roster
\* tokens.
C9_Witness ==
  /\ lastOp = "addPlayerToCourt:ignored"
  /\ Len(ancbTokensOf(tokens)) = 2

\* C10: in every reachable state the tokens of one frame have pairwise distinct
\* ids.
C10_UniqueIds ==
  \A f \in 1..Len(frames) :
    \A i, j \in 1..Len(frames[f].tokens) :
      frames[f].tokens[i].id = frames[f].tokens[j].id => i = j

\* C10 witness: a roster entry has just been added to a frame next to another
\* roster token created at the same Date.now() reading.
C10_Witness ==
  /\ lastOp = "addPlayerToCourt"
  /\ \E i, j \in 1..Len(tokens) :
       /\ i # j
       /\ tokens[i].type = "ancb"
       /\ tokens[j].type = "ancb"
       /\ tokens[i].id[3] = tokens[j].id[3]

----------------------------------------------------------------------------
(* Properties of positions, saved plays and the initial state *)

\* C11: in every reachable state every token of every frame has both ratio
\* coordinates in [0, 1].
C11_PositionsInUnitSquare ==
  \A f \in 1..Len(frames) :
    \A i \in 1..Len(frames[f].tokens) :
      /\ 0 <= frames[f].tokens[i].xRatio /\ frames[f].tokens[i].xRatio <= 1000
      /\ 0 <= frames[f].tokens[i].yRatio /\ frames[f].tokens[i].yRatio <= 1000

\* C12: a saved play holds the frames of the moment of the save and no later
\* edit changes it (in memory or in the store, which always decodes to the
\* in-memory list); loading a saved play replaces the frames by the frames of
\* that play and sets the cursor to 0.
C12_SaveLoadRoundTrip ==
  /\ [](parsePlays(stored) = savedPlays)
  /\ [][
        /\ (lastOp' = "savePlay") =>
             ( /\ savedPlays'[1].frames = frames
               /\ Tail(savedPlays') = savedPlays
               /\ frames' = frames )
        /\ (lastOp' = "loadPlay") =>
             ( /\ currentFrameIndex' = 0
               /\ \E i \in 1..Len(savedPlays) : frames' = savedPlays[i].frames )
        /\ (lastOp' \notin {"savePlay", "deleteSavedPlay", "reload"}) =>
             ( /\ savedPlays' = savedPlays
               /\ stored' = stored )
     ]_vars

\* C12 witness: the frames were saved, a line was drawn after the save, and
\* the play has just been loaded: the line is gone.
C12_Witness ==
  /\ lastOp = "loadPlay"
  /\ steps = 4
  /\ isDrawing
  /\ Len(frames) = 1
  /\ frames[1].lines = <<>>
  /\ frames = savedPlays[1].frames

\* C13: the initial state is one half-court frame with cursor 0, no lines, no
\* roster token and the 10 slot tokens (opponent 1-5, generic 1-5) at their
\* parked positions; adding a roster entry to a frame without roster tokens
\* appends one roster token with that entry's nome at (0.5, 0.07) and leaves
\* the other tokens as they were, so the initial 10 become 11.
C13_InitialStateAndFirstAdd ==
  /\ Len(frames) = 1
  /\ currentFrameIndex = 0
  /\ frames[1].courtType = "half"
  /\ frames[1].lines = <<>>
  /\ Len(frames[1].tokens) = 10
  /\ \A i \in 1..5 :
        /\ frames[1].tokens[i].type = "rival"
        /\ frames[1].tokens[i].numero = i
        /\ frames[1].tokens[i].xRatio = 44
        /\ frames[1].tokens[i].yRatio = 70 + 90 * (i - 1)
        /\ frames[1].tokens[5 + i].type = "generic"
        /\ frames[1].tokens[5 + i].numero = i
        /\ frames[1].tokens[5 + i].xRatio = 44
        /\ frames[1].tokens[5 + i].yRatio = 520 + 90 * (i - 1)
  /\ [][
        lastOp' = "addPlayerToCourt" =>
        \A p \in 1..Len(dbPlayers) : \A t \in Readings :
          (addPlayerToCourt(dbPlayers[p], t) /\ ancbTokensOf(tokens) = <<>>) =>
            ( /\ Len(tokens') = Len(tokens) + 1
              /\ SubSeq(tokens', 1, Len(tokens)) = tokens
              /\ tokens'[Len(tokens')].type = "ancb"
              /\ tokens'[Len(tokens')].nome = dbPlayers[p].nome
              /\ tokens'[Len(tokens')].xRatio = 500
              /\ tokens'[Len(tokens')].yRatio = 70 )
     ]_vars

\* C13 witness: the first step of a run added a roster entry to the initial
\* frame, which now holds 11 tokens.
C13_Witness ==
  /\ lastOp = "addPlayerToCourt"
  /\ steps = 1
  /\ Len(tokens) = 11
  /\ tokens[11].nome = 2
  /\ SubSeq(tokens, 1, 10) = buildDefaultTokens

\* The handler outcomes that change tokens, lines or the court of a frame
FrameMutations ==
  {"addPlayerToCourt", "addPlayerToCourt:ignored", "handleDragEnd",
   "removeSelectedToken", "removeSelectedToken:none", "handlePointerDown:draw", "handlePointerDown:token",
   "handlePointerMove", "handlePointerMove:ignored", "handlePointerMove:threw",
   "undoLastLine", "clearLines", "setCourtType"}

\* C14: a step of a token, line or court handler leaves the cursor, the number
\* of frames and every frame other than the one at the cursor unchanged.
C14_OnlyCurrentFrameChanges ==
  [][ lastOp' \in FrameMutations =>
        ( /\ currentFrameIndex' = currentFrameIndex
          /\ Len(frames') = Len(frames)
          /\ \A i \in 1..Len(frames) :
                i # currentFrameIndex + 1 => frames'[i] = frames[i] ) ]_vars

\* C14 witness: a line was drawn and extended on the second of two frames; the
\* first frame still has no line.
C14_Witness ==
  /\ lastOp = "handlePointerMove"
  /\ Len(frames) = 2
  /\ currentFrameIndex = 1
  /\ Len(frames[2].lines) = 1
  /\ Len(frames[2].lines[1].pointRatios) = 4
  /\ frames[1].lines = <<>>

\* The gesture is Drawing when a pointer-move would extend a line
Drawing == isActuallyDrawingRef /\ isDrawing

\* C15: a pointer-down on no token makes the gesture Drawing and appends to the
\* lines of the current frame one line that holds the pointer position as its
\* only point and has the selected pen colour, the earlier lines unchanged; a
\* pointer-down on a token leaves the frames unchanged and the gesture Idle.
C15_PointerDown ==
  [][
      lastOp' \in {"handlePointerDown:draw", "handlePointerDown:token"} =>
      \A pos \in PointerPixels :
        handlePointerDown(pos[1], pos[2]) =>
          IF \A i \in 1..Len(tokens) : ~withinHit(tokens[i], pos[1], pos[2])
          THEN /\ Drawing'
               /\ Len(lines') = Len(lines) + 1
               /\ SubSeq(lines', 1, Len(lines)) = lines
               /\ lines'[Len(lines')].color = lineColor
               /\ Len(lines'[Len(lines')].pointRatios) = 2
               /\ lines'[Len(lines')].pointRatios[1] * stageW <= pos[1] * 1000
               /\ pos[1] * 1000 < (lines'[Len(lines')].pointRatios[1] + 1) * stageW
               /\ lines'[Len(lines')].pointRatios[2] * stageH <= pos[2] * 1000
               /\ pos[2] * 1000 < (lines'[Len(lines')].pointRatios[2] + 1) * stageH
          ELSE /\ frames' = frames
               /\ ~Drawing'
   ]_vars

\* C15 witness: a second line has just been started after the pen colour was
\* changed; the first line keeps its colour.
C15_Witness ==
  /\ lastOp = "handlePointerDown:draw"
  /\ Len(lines) = 2
  /\ lines[1].color = "#ff0000"
  /\ lines[2].color = "#000000"
  /\ Drawing

\* The state of the program without the history variables lastOp and steps
state ==
  <<frames, currentFrameIndex, selectedTokenId, lineColor, isDrawing,
    isActuallyDrawingRef, playName, savedPlays, stored, clock, mounted>>

\* Sequence a is a prefix of sequence b
IsPrefix(a, b) == Len(a) <= Len(b) /\ SubSeq(b, 1, Len(a)) = a

\* C16: during Drawing a pointer-move appends one point to the last line of
\* the current frame and changes nothing else (same number of lines, earlier
\* lines unchanged); when the gesture is Idle a pointer-move changes nothing.
C16_PointerMove ==
  [][
      \A pos \in PointerPixels :
        handlePointerMove(pos[1], pos[2]) =>
          IF Drawing
          THEN /\ Len(lines) >= 1
               /\ Len(lines') = Len(lines)
               /\ SubSeq(lines', 1, Len(lines) - 1) = SubSeq(lines, 1, Len(lines) - 1)
               /\ IsPrefix(lines[Len(lines)].pointRatios, lines'[Len(lines)].pointRatios)
               /\ Len(lines'[Len(lines)].pointRatios)
                     = Len(lines[Len(lines)].pointRatios) + 2
               /\ lines'[Len(lines)].color = lines[Len(lines)].color
               /\ OtherFramesUnchanged(currentFrameIndex)
               /\ tokens' = tokens /\ courtType' = courtType
               /\ <<currentFrameIndex, selectedTokenId, lineColor, isDrawing,
                    isActuallyDrawingRef, playName, savedPlays, stored, clock,
                    mounted>>'
                    = <<currentFrameIndex, selectedTokenId, lineColor, isDrawing,
                        isActuallyDrawingRef, playName, savedPlays, stored, clock,
                        mounted>>
          ELSE state' = state
   ]_vars

\* C17: a pointer-up or a pointer-leave during Drawing makes the gesture Idle
\* and leaves the frames as they are.
C17_PointerUpOrLeaveEndsGesture ==
  [][ (lastOp' \in {"handlePointerUp", "pointerLeave"} /\ Drawing) =>
        (~Drawing' /\ frames' = frames) ]_vars

\* C18: every line of every frame has at least one point, and across a step
\* that neither loads a play, deletes a frame nor restarts the program every
\* line that is still at its place keeps its previous points as a prefix.
C18_PointsOnlyGrow ==
  /\ [](\A f \in 1..Len(frames) : \A i \in 1..Len(frames[f].lines) :
          Len(frames[f].lines[i].pointRatios) >= 2)
  /\ [][ lastOp' \notin {"loadPlay", "deleteFrame", "reload"} =>
          \A f \in 1..Len(frames) :
            /\ f <= Len(frames')
            /\ \A i \in 1..Min(Len(frames[f].lines), Len(frames'[f].lines)) :
                  IsPrefix(frames[f].lines[i].pointRatios,
                           frames'[f].lines[i].pointRatios) ]_vars

\* C18 witness: a line started by a pointer-down has been extended twice.
C18_Witness ==
  /\ lastOp = "handlePointerMove"
  /\ Len(lines) = 1
  /\ Len(lines[1].pointRatios) = 6

\* The roster tokens of ts lie on the top row, evenly spaced and centred
TopRowLaidOut(ts) ==
  LET row == ancbTokensOf(ts)
      n == Len(row)
  IN \A k \in 1..n :
       /\ row[k].xRatio = 500 - ((n - 1) * 100) \div 2 + (k - 1) * 100
       /\ row[k].yRatio = 70

\* The tokens of ts that are not roster tokens
slotTokensOf(ts) == SelectSeq(ts, LAMBDA t : t.type # "ancb")

\* C19: after a roster token is added to or removed from the current frame,
\* the roster tokens of the frame are laid out on the top row, evenly spaced
\* and centred on 0.5, and the slot tokens are where they were.
C19_RowRelaidOut ==
  [][ ( \/ lastOp' = "addPlayerToCourt"
        \/ lastOp' = "removeSelectedToken" /\ selectedTokenId[1] = "player" ) =>
        ( /\ TopRowLaidOut(tokens')
          /\ slotTokensOf(tokens') = slotTokensOf(tokens) ) ]_vars

\* Every frame holds each of the 10 slot tokens exactly once
AllSlotsPresent ==
  \A f \in 1..Len(frames) :
    \A kind \in {"rival", "generic"} : \A n \in 1..5 :
      Cardinality({ i \in 1..Len(frames[f].tokens) :
                     frames[f].tokens[i].id = <<kind, 0, n>> }) = 1

\* C20: removeSelectedToken with a slot token selected keeps the token and
\* puts it at its numbered slot; with a roster token selected it deletes that
\* token from the current frame; the other tokens are unchanged and the
\* selection is cleared; with no selection nothing changes.  Every frame
\* always holds all 10 slot tokens.
C20_RemoveParksSlotsDeletesRoster ==
  /\ []AllSlotsPresent
  /\ [][ removeSelectedToken =>
          IF selectedTokenId = NoToken
          THEN state' = state
          ELSE /\ selectedTokenId' = NoToken
               /\ OtherFramesUnchanged(currentFrameIndex)
               /\ lines' = lines /\ courtType' = courtType
               /\ IF selectedTokenId[1] \in {"rival", "generic"}
                  THEN /\ Len(tokens') = Len(tokens)
                       /\ \A i \in 1..Len(tokens) :
                            IF tokens[i].id = selectedTokenId
                            THEN /\ tokens'[i].id = tokens[i].id
                                 /\ tokens'[i].type = tokens[i].type
                                 /\ tokens'[i].numero = tokens[i].numero
                                 /\ tokens'[i].xRatio = 44
                                 /\ tokens'[i].yRatio =
                                      (IF tokens[i].type = "rival" THEN 70 ELSE 520)
                                        + 90 * (tokens[i].numero - 1)
                            ELSE tokens'[i] = tokens[i]
                  ELSE tokens' = SelectSeq(tokens, LAMBDA t : t.id # selectedTokenId)
        ]_vars

\* C20 witness: a roster token was added, selected and removed; the frame is
\* back to the 10 slot tokens and nothing is selected.
C20_Witness ==
  /\ lastOp = "removeSelectedToken"
  /\ steps = 3
  /\ clock = 1
  /\ tokens = buildDefaultTokens
  /\ selectedTokenId = NoToken

\* C21: a drag-end for token id with reported ratios (x, y), inside or outside
\* the canvas, puts that token at x and y each clamped into [0.02, 0.98],
\* leaves every other token of the current frame unchanged, and changes
\* nothing when no token of the frame has that id.
C21_DragEndClamps ==
  [][
      lastOp' = "handleDragEnd" =>
      \A id \in Draggable \cup {MissingId} : \A r \in DragEnds :
        handleDragEnd(id, r[1], r[2]) =>
          ( /\ Len(tokens') = Len(tokens)
            /\ \A i \in 1..Len(tokens) :
                 IF tokens[i].id = id
                 THEN /\ tokens'[i].xRatio =
                           (IF r[1] < 20 THEN 20 ELSE IF r[1] > 980 THEN 980 ELSE r[1])
                      /\ tokens'[i].yRatio =
                           (IF r[2] < 20 THEN 20 ELSE IF r[2] > 980 THEN 980 ELSE r[2])
                      /\ tokens'[i].id = tokens[i].id
                      /\ tokens'[i].type = tokens[i].type
                      /\ tokens'[i].numero = tokens[i].numero
                      /\ tokens'[i].nome = tokens[i].nome
                 ELSE tokens'[i] = tokens[i]
            /\ (\A i \in 1..Len(tokens) : tokens[i].id # id) => state' = state )
   ]_vars

\* C21 witness: a drag-end reported a position left of and below the canvas
\* for the first opponent slot, which now stands at (0.02, 0.98).
C21_Witness ==
  /\ lastOp = "handleDragEnd"
  /\ tokens[1].id = <<"rival", 0, 1>>
  /\ tokens[1].xRatio = 20
  /\ tokens[1].yRatio = 980
  /\ SubSeq(tokens, 2, 10) = SubSeq(buildDefaultTokens, 2, 10)

\* The indices of the tokens of the current frame within 30 px of pixel (x, y)
InRadius(x, y) ==
  { i \in 1..Len(tokens) :
      ((tokens[i].xRatio * stageW) \div 1000 - x) * ((tokens[i].xRatio * stageW) \div 1000 - x)
      + ((tokens[i].yRatio * stageH) \div 1000 - y) * ((tokens[i].yRatio * stageH) \div 1000 - y)
      <= 900 }

\* C22: the hit test returns the first token, in the current frame's token
\* order, that is within 30 px of the pointer, also when a later token is
\* strictly nearer, and returns none exactly when no token is within 30 px;
\* a pointer-down treats the position as a token exactly when one is returned.
C22_HitTestFirstInOrder ==
  /\ [](LET hits == InRadius(HitPixel[1], HitPixel[2])
            hit == getTokenAtPosition(HitPixel[1], HitPixel[2])
        IN /\ (hits = {}) <=> (hit = NoToken)
           /\ hits # {} =>
                \E i \in hits : (\A j \in hits : i <= j) /\ hit = tokens[i].id)
  /\ [][ handlePointerDown(HitPixel[1], HitPixel[2]) =>
          IF InRadius(HitPixel[1], HitPixel[2]) = {}
          THEN lastOp' = "handlePointerDown:draw"
          ELSE lastOp' = "handlePointerDown:token" /\ frames' = frames ]_vars

\* C22 witness: a pointer-down has just hit a token while the first opponent
\* slot is 20 px from the pointer and the second one is on the pointer; the
\* hit test names the first.
C22_Witness ==
  /\ lastOp = "handlePointerDown:token"
  /\ InRadius(HitPixel[1], HitPixel[2]) = {1, 2}
  /\ hitDistance2(tokens[1], HitPixel[1], HitPixel[2]) = 400
  /\ hitDistance2(tokens[2], HitPixel[1], HitPixel[2]) = 0
  /\ getTokenAtPosition(HitPixel[1], HitPixel[2]) = <<"rival", 0, 1>>

\* C23: deleteFrame and deleteSavedPlay change something only when the user
\* confirms: a declined deletion leaves frames, cursor, saved plays and the
\* store (and everything else) unchanged; a confirmed one removes the frame
\* at the cursor, or the saved plays with the given id from list and store.
C23_DeletionsNeedConfirmation ==
  [][ /\ deleteFrame(FALSE) => state' = state
      /\ (deleteFrame(TRUE) /\ Len(frames) > 1) => Len(frames') = Len(frames) - 1
      /\ \A i \in 1..Len(savedPlays) :
           /\ deleteSavedPlay(savedPlays[i].id, FALSE) => state' = state
           /\ deleteSavedPlay(savedPlays[i].id, TRUE) =>
                /\ Len(savedPlays') < Len(savedPlays)
                /\ \A j \in 1..Len(savedPlays') : savedPlays'[j].id # savedPlays[i].id
                /\ parsePlays(stored') = savedPlays'
    ]_vars

\* C23 witness: the deletion of the one saved play has just been declined;
\* the play is still in the list and in the store.
C23_Witness ==
  /\ lastOp = "deleteSavedPlay:declined"
  /\ Len(savedPlays) = 1
  /\ Len(stored) = 1

\* C24: savePlay with an empty or blank name changes neither the saved plays,
\* the store, the frames nor the cursor; with another name it puts one new
\* play holding the typed name and the current frames in front of the saved
\* plays and writes that list to the store.
C24_SaveValidatesName ==
  [][
      \A t \in Readings :
        savePlay(t) =>
          IF \A i \in 1..Len(playName) : playName[i] = " "
          THEN /\ savedPlays' = savedPlays /\ stored' = stored
               /\ frames' = frames /\ currentFrameIndex' = currentFrameIndex
          ELSE /\ Len(savedPlays') = Len(savedPlays) + 1
               /\ Tail(savedPlays') = savedPlays
               /\ savedPlays'[1].name = playName
               /\ savedPlays'[1].frames = frames
               /\ parsePlays(stored') = savedPlays'
               /\ frames' = frames /\ currentFrameIndex' = currentFrameIndex
   ]_vars

\* C24 witness: a save with the one-blank name has just been rejected.
C24_Witness ==
  /\ lastOp = "savePlay:rejected"
  /\ playName = <<" ">>
  /\ savedPlays = <<>>
  /\ stored = <<>>

\* The entries of a store text that are complete, in the order of the text
completeEntries(text) == SelectSeq(text, isCompleteEntry)

\* C25: the startup read of a store that holds a cut-off entry skips that
\* entry and loads every complete entry, and the program stays mounted.
C25_MalformedEntrySkipped ==
  [][ lastOp' = "reload" =>
        ( /\ savedPlays' = parsePlays(completeEntries(stored))
          /\ mounted' ) ]_vars

\* C26: a completed load sets the displayed court image to its own, whatever
\* the court type of the current frame is by then, and changes neither
\* frames nor cursor; so the last load to complete decides the image.
C26_LastResolvedWins ==
  [][
      \A load \in loading :
        assetsLoaded(load) =>
          ( /\ assets'.lines = load.courtType
            /\ loading' = loading \ {load}
            /\ frames' = frames
            /\ currentFrameIndex' = currentFrameIndex )
   ]_vars

\* C26 witness: every load has completed and the displayed court image is
\* not the one of the current frame's court type.
C26_Witness ==
  /\ lastOp = "assetsLoaded"
  /\ loading = {}
  /\ assets.lines # "none"
  /\ assets.lines # courtType

\* C27: whenever the gesture is Drawing the frame at the cursor has at least
\* one line, and no pointer-move fails: the program stays mounted.
C27_DrawingHasLine ==
  /\ Drawing => Len(lines) >= 1
  /\ mounted

\* C28: a pointer-move that extends a line extends the line the pointer-down
\* of the gesture in progress created: the last line of the frame at the
\* cursor is that line, in the frame where the gesture started.
C28_MoveExtendsGestureLine ==
  [][ (lastOp' = "handlePointerMove" /\ gestureLine # NoGesture) =>
        ( /\ currentFrameIndex = gestureLine[1]
          /\ Len(lines) = gestureLine[2] ) ]_vars

\* C29: the selection is empty or the id of a token of the frame at the
\* cursor.
C29_SelectionOnCurrentFrame ==
  \/ selectedTokenId = NoToken
  \/ \E i \in 1..Len(tokens) : tokens[i].id = selectedTokenId

====
